---- MODULE Spec2Model ----
(***************************************************************************)
(* Model of the Flask embedding service of src/app.py: the module-level    *)
(* model handle, the one-shot load at import time, and the four request    *)
(* handlers (/health, /embed, /embed/batch, /).                            *)
(*                                                                         *)
(* A JSON value is a record [t, n, s, l]: t is the JSON type, n the number *)
(* (or 0/1 for a boolean), s the characters of a string, l the elements of *)
(* a list.  A request body is unparseable, a bare JSON value, or an object *)
(* with some of the keys text / texts / other.                             *)
(***************************************************************************)
EXTENDS Integers, Sequences, FiniteSets, TLC

\* ---------------------------------------------------------------- bounds
MaxLen == 2        \* longest generated string
MaxList == 2       \* longest generated list of texts
MaxRequests == 2   \* requests served in one run
Dim == 2           \* length of the vectors a well-behaved encode returns

\* ------------------------------------------------------- program constants
RootDimensions == 768

None == "None"
Handle == "SentenceTransformer"

Chars == {" ", "a"}
Whitespace == {" "}

BoundedSeq(S, n) == UNION {[1..k -> S] : k \in 0..n}

TextChars == <<"t", "e", "x", "t">>
TextsChars == <<"t", "e", "x", "t", "s">>
Interior == <<"a", " ", "a">>

Strings == BoundedSeq(Chars, MaxLen) \cup {TextChars, TextsChars, Interior}

\* ------------------------------------------------------------ JSON values
JNull == [t |-> "null", n |-> 0, s |-> <<>>, l |-> <<>>]
JBool(b) == [t |-> "bool", n |-> IF b THEN 1 ELSE 0, s |-> <<>>, l |-> <<>>]
JNum(k) == [t |-> "num", n |-> k, s |-> <<>>, l |-> <<>>]
JStr(x) == [t |-> "str", n |-> 0, s |-> x, l |-> <<>>]
JList(x) == [t |-> "list", n |-> 0, s |-> <<>>, l |-> x]

NonStrAtoms == {JNull, JBool(TRUE), JNum(0), JNum(5)}
Atoms == {JStr(x) : x \in Strings} \cup NonStrAtoms
\* the elements request lists are built from: blank and non-blank strings,
\* the two key names, and a non-string
ListStrings == {<<>>, <<" ">>, <<"a">>, <<" ", "a">>, TextChars, TextsChars}
ListAtoms == {JStr(x) : x \in ListStrings} \cup {JNum(5)}
Values == Atoms \cup {JList(x) : x \in BoundedSeq(ListAtoms, MaxList)}

Keys == {"text", "texts", "other"}

Unparseable == [kind |-> "invalid", v |-> JNull, keys |-> {}, text |-> JNull, texts |-> JNull]
BareBody(x) == [kind |-> "value", v |-> x, keys |-> {}, text |-> JNull, texts |-> JNull]
DictBody(K, x) ==
    [kind |-> "dict", v |-> JNull, keys |-> K,
     text |-> IF "text" \in K THEN x ELSE JNull,
     texts |-> IF "texts" \in K THEN x ELSE JNull]

Bodies ==
    {Unparseable} \cup {BareBody(x) : x \in Values}
    \cup {DictBody(K, JNull) : K \in SUBSET {"other"}}
    \cup {DictBody(K, x) : K \in {{"text"}, {"texts"}, {"text", "texts", "other"}}, x \in Values}

EncodeModes == {"ok", "raise", "ragged"}
EncodeMessage == "encode failed"

\* ------------------------------------------------------- Python semantics
RECURSIVE LStrip(_)
LStrip(x) ==
    IF x = <<>> THEN <<>>
    ELSE IF Head(x) \in Whitespace THEN LStrip(Tail(x)) ELSE x

RECURSIVE RStrip(_)
RStrip(x) ==
    IF x = <<>> THEN <<>>
    ELSE IF x[Len(x)] \in Whitespace THEN RStrip(SubSeq(x, 1, Len(x) - 1)) ELSE x

Strip(x) == RStrip(LStrip(x))

IsSubstring(needle, x) ==
    \E i \in 1..(Len(x) + 1) :
        /\ i + Len(needle) - 1 <= Len(x)
        /\ SubSeq(x, i, i + Len(needle) - 1) = needle

Truthy(x) ==
    CASE x.t = "null" -> FALSE
      [] x.t = "bool" -> x.n = 1
      [] x.t = "num" -> x.n # 0
      [] x.t = "str" -> x.s # <<>>
      [] x.t = "list" -> x.l # <<>>

KeyChars(key) == IF key = "text" THEN TextChars ELSE TextsChars

\* `not data`
NotData(body) ==
    IF body.kind = "dict" THEN body.keys = {} ELSE ~Truthy(body.v)

\* `key in data` raises TypeError for a number or a boolean
InRaises(body) == body.kind = "value" /\ body.v.t \in {"num", "bool"}

\* `key in data`
KeyIn(key, body) ==
    IF body.kind = "dict" THEN key \in body.keys
    ELSE IF body.v.t = "str" THEN IsSubstring(KeyChars(key), body.v.s)
    ELSE \E i \in 1..Len(body.v.l) : body.v.l[i] = JStr(KeyChars(key))

\* data[key] raises TypeError for a list or a string
SubscriptRaises(body) == body.kind # "dict"

Subscript(body, key) == IF key = "text" THEN body.text ELSE body.texts

\* x.strip() raises AttributeError unless x is a str
HasStrip(x) == x.t = "str"

\* request.get_json() raises BadRequest when the body does not parse
GetJsonRaises(body) == body.kind = "invalid"

\* ----------------------------------------------------------- the encoder
RECURSIVE Code(_)
Code(x) ==
    IF x = <<>> THEN 0
    ELSE 4 * Code(SubSeq(x, 1, Len(x) - 1))
         + (IF x[Len(x)] = " " THEN 1 ELSE IF x[Len(x)] = "a" THEN 2 ELSE 3)

Vec(x, d) == [i \in 1..d |-> Code(x.s)]

\* model.encode(text): one vector
EncodeStr(text, mode) == Vec(text, Dim)

\* model.encode(list): one vector per text, in input order; a misbehaving
\* handle ("ragged") returns vectors of differing lengths
EncodeList(ts, mode) ==
    [k \in 1..Len(ts) |-> Vec(ts[k], IF mode = "ragged" THEN Dim + k - 1 ELSE Dim)]

\* ------------------------------------------------------------- responses
NoVec == <<>>

Response(status, shape, error, st, embedding, embeddings, count, dimensions) ==
    [status |-> status, shape |-> shape, error |-> error, status_text |-> st,
     embedding |-> embedding, embeddings |-> embeddings, count |-> count,
     dimensions |-> dimensions]

NoResponse == Response(0, "none", "", "", NoVec, <<>>, 0, 0)

ErrorResponse(msg, status) == Response(status, "error", msg, "", NoVec, <<>>, 0, 0)

NoCall == [shape |-> "none", texts |-> <<>>]
NoReturn == [raised |-> FALSE, vecs |-> <<>>]

Outcome(resp, arg, ret) == [resp |-> resp, arg |-> arg, ret |-> ret]

Answer(resp) == Outcome(resp, NoCall, NoReturn)

\* ------------------------------------------------------------------ state
VARIABLES
    pc,           \* "load": module import running load_model; "idle": serving;
                  \* "replying": a handler has returned, reply not yet sent
    model,        \* the global model handle
    req,          \* the request being answered
    resp,         \* the handler's return value
    encodeArg,    \* what the handler passed to model.encode, if it called it
    encodeRet,    \* what model.encode did
    encodeCalls,  \* number of model.encode calls so far
    served        \* number of replies sent

vars == <<pc, model, req, resp, encodeArg, encodeRet, encodeCalls, served>>

ModelState ==
    IF pc = "load" THEN "Loading" ELSE IF model = None THEN "Failed" ELSE "Ready"

NoRequest == [ep |-> "none", body |-> Unparseable, mode |-> "ok"]
Request(ep, body, mode) == [ep |-> ep, body |-> body, mode |-> mode]

\* --------------------------------------------------------------- handlers
\* the gate dropped: the handle is never reported missing
ModelIsNone_never(m) == FALSE

ModelIsNone(m) == m = None

\* the caught exception's message replaced by a fixed text
except_response_generic(e) == ErrorResponse("Internal server error", 500)

except_response(e) == ErrorResponse(e, 500)

\* the probe answering healthy without looking at the handle
health_check_always_ok(m) == Response(200, "health", "", "healthy", NoVec, <<>>, 0, 0)

health_check(m) ==
    IF ModelIsNone(m)
    THEN Response(500, "health", "", "error", NoVec, <<>>, 0, 0)
    ELSE Response(200, "health", "", "healthy", NoVec, <<>>, 0, 0)

root(m) ==
    Response(200, "root", "", IF m # None THEN "ready" ELSE "loading",
             NoVec, <<>>, 0, RootDimensions)

embed_text_ready(body, mode) ==
    IF GetJsonRaises(body) THEN Answer(except_response("BadRequest"))
    ELSE IF NotData(body) THEN Answer(ErrorResponse("No text provided", 400))
    ELSE IF InRaises(body) THEN Answer(except_response("TypeError"))
    ELSE IF ~KeyIn("text", body) THEN Answer(ErrorResponse("No text provided", 400))
    ELSE IF SubscriptRaises(body) THEN Answer(except_response("TypeError"))
    ELSE LET text == Subscript(body, "text") IN
        IF ~HasStrip(text) THEN Answer(except_response("AttributeError"))
        ELSE IF Strip(text.s) = <<>> THEN Answer(ErrorResponse("Empty text provided", 400))
        ELSE LET arg == [shape |-> "str", texts |-> <<text>>] IN
            IF mode = "raise"
            THEN Outcome(except_response(EncodeMessage), arg,
                         [raised |-> TRUE, vecs |-> <<>>])
            ELSE LET embedding == EncodeStr(text, mode) IN
                Outcome(Response(200, "single", "", "", embedding, <<>>, 0, Len(embedding)),
                        arg, [raised |-> FALSE, vecs |-> <<embedding>>])

\* validation moved in front of the readiness check
embed_text_validate_first(m, body, mode) ==
    LET out == embed_text_ready(body, mode) IN
    IF out.resp.status = 400 THEN out
    ELSE IF ModelIsNone(m) THEN Answer(ErrorResponse("Model not loaded", 500))
    ELSE out

embed_text(m, body, mode) ==
    IF ModelIsNone(m) THEN Answer(ErrorResponse("Model not loaded", 500))
    ELSE embed_text_ready(body, mode)

\* [text for text in texts if text.strip()]
StripRaises(l) == \E i \in 1..Len(l) : ~HasStrip(l[i])

\* the emptiness filter dropped
valid_texts_nofilter(l) == l

\* the surviving texts trimmed
valid_texts_trimmed(l) ==
    LET kept == SelectSeq(l, LAMBDA x : Strip(x.s) # <<>>) IN
    [i \in 1..Len(kept) |-> JStr(Strip(kept[i].s))]

valid_texts(l) == SelectSeq(l, LAMBDA x : Strip(x.s) # <<>>)

\* len(embeddings) in place of len(embeddings[0])
BatchDimensions_count(embeddings) == Len(embeddings)

BatchDimensions(embeddings) ==
    IF Len(embeddings) > 0 THEN Len(embeddings[1]) ELSE 0

embed_batch_ready(body, mode) ==
    IF GetJsonRaises(body) THEN Answer(except_response("BadRequest"))
    ELSE IF NotData(body) THEN Answer(ErrorResponse("No texts provided", 400))
    ELSE IF InRaises(body) THEN Answer(except_response("TypeError"))
    ELSE IF ~KeyIn("texts", body) THEN Answer(ErrorResponse("No texts provided", 400))
    ELSE IF SubscriptRaises(body) THEN Answer(except_response("TypeError"))
    ELSE LET texts == Subscript(body, "texts") IN
        IF texts.t # "list" THEN Answer(ErrorResponse("Texts must be a list", 400))
        ELSE IF StripRaises(texts.l) THEN Answer(except_response("AttributeError"))
        ELSE LET valid == valid_texts(texts.l) IN
            IF valid = <<>> THEN Answer(ErrorResponse("No valid texts provided", 400))
            ELSE LET arg == [shape |-> "list", texts |-> valid] IN
                IF mode = "raise"
                THEN Outcome(except_response(EncodeMessage), arg,
                             [raised |-> TRUE, vecs |-> <<>>])
                ELSE LET embeddings == EncodeList(valid, mode) IN
                    Outcome(Response(200, "batch", "", "", NoVec, embeddings,
                                     Len(embeddings), BatchDimensions(embeddings)),
                            arg, [raised |-> FALSE, vecs |-> embeddings])

embed_batch(m, body, mode) ==
    IF ModelIsNone(m) THEN Answer(ErrorResponse("Model not loaded", 500))
    ELSE embed_batch_ready(body, mode)

\* ---------------------------------------------------------------- actions
Init ==
    /\ pc = "load"
    /\ model = None
    /\ req = NoRequest
    /\ resp = NoResponse
    /\ encodeArg = NoCall
    /\ encodeRet = NoReturn
    /\ encodeCalls = 0
    /\ served = 0

\* a failed load retried while the service is idle
LoadModel_retry ==
    /\ pc = "load" \/ (pc = "idle" /\ model = None)
    /\ \E ok \in BOOLEAN : model' = IF ok THEN Handle ELSE None
    /\ pc' = "idle"
    /\ UNCHANGED <<req, resp, encodeArg, encodeRet, encodeCalls, served>>

LoadModel ==
    /\ pc = "load"
    /\ \E ok \in BOOLEAN : model' = IF ok THEN Handle ELSE None
    /\ pc' = "idle"
    /\ UNCHANGED <<req, resp, encodeArg, encodeRet, encodeCalls, served>>

Handled(r, out) ==
    /\ pc = "idle"
    /\ served < MaxRequests
    /\ req' = r
    /\ resp' = out.resp
    /\ encodeArg' = out.arg
    /\ encodeRet' = out.ret
    /\ encodeCalls' = IF out.arg = NoCall THEN encodeCalls ELSE encodeCalls + 1
    /\ pc' = "replying"
    /\ UNCHANGED <<model, served>>

HealthCheck == Handled(Request("/health", Unparseable, "ok"), Answer(health_check(model)))

EmbedText ==
    \E body \in Bodies, mode \in EncodeModes :
        Handled(Request("/embed", body, mode), embed_text(model, body, mode))

EmbedBatch ==
    \E body \in Bodies, mode \in EncodeModes :
        Handled(Request("/embed/batch", body, mode), embed_batch(model, body, mode))

Root == Handled(Request("/", Unparseable, "ok"), Answer(root(model)))

Reply ==
    /\ pc = "replying"
    /\ pc' = "idle"
    /\ req' = NoRequest
    /\ resp' = NoResponse
    /\ encodeArg' = NoCall
    /\ encodeRet' = NoReturn
    /\ served' = served + 1
    /\ UNCHANGED <<model, encodeCalls>>

Next == LoadModel \/ HealthCheck \/ EmbedText \/ EmbedBatch \/ Root \/ Reply

Spec == Init /\ [][Next]_vars

TypeOK ==
    /\ pc \in {"load", "idle", "replying"}
    /\ model \in {None, Handle}
    /\ served \in 0..MaxRequests
    /\ encodeCalls \in 0..MaxRequests

\* ----------------------------------------------------------- properties
Replying == pc = "replying"
IsPost == req.ep \in {"/embed", "/embed/batch"}
NotLoaded == ErrorResponse("Model not loaded", 500)

NonBlank(x) == \E j \in 1..Len(x) : x[j] \notin Whitespace

RECURSIVE Keep(_)
Keep(l) ==
    IF l = <<>> THEN <<>>
    ELSE (IF NonBlank(Head(l).s) THEN <<Head(l)>> ELSE <<>>) \o Keep(Tail(l))

AllStr(l) == \A i \in 1..Len(l) : l[i].t = "str"

HasField(body, key) == body.kind = "dict" /\ key \in body.keys

GoodText(body) ==
    HasField(body, "text") /\ body.text.t = "str" /\ NonBlank(body.text.s)

GoodTexts(body) ==
    /\ HasField(body, "texts")
    /\ body.texts.t = "list"
    /\ AllStr(body.texts.l)
    /\ \E i \in 1..Len(body.texts.l) : NonBlank(body.texts.l[i].s)

WellFormed(r) == IF r.ep = "/embed" THEN GoodText(r.body) ELSE GoodTexts(r.body)

\* the validation failures the error taxonomy names
MissingField(r) ==
    r.body.kind = "dict" /\ (IF r.ep = "/embed" THEN "text" ELSE "texts") \notin r.body.keys
EmptyText(r) ==
    r.ep = "/embed" /\ HasField(r.body, "text") /\ r.body.text.t = "str"
    /\ ~NonBlank(r.body.text.s)
NotASequence(r) ==
    r.ep = "/embed/batch" /\ HasField(r.body, "texts") /\ r.body.texts.t # "list"
NoValidTexts(r) ==
    r.ep = "/embed/batch" /\ HasField(r.body, "texts") /\ r.body.texts.t = "list"
    /\ AllStr(r.body.texts.l) /\ Keep(r.body.texts.l) = <<>>
FailsValidation(r) == MissingField(r) \/ EmptyText(r) \/ NotASequence(r) \/ NoValidTexts(r)

ErrorKind(r) ==
    IF r.status = 200 THEN "Ok"
    ELSE IF r.error = "Model not loaded" THEN "ModelUnavailable"
    ELSE IF r.error \in {"No text provided", "No texts provided"} THEN "MissingField"
    ELSE IF r.error = "Empty text provided" THEN "EmptyText"
    ELSE IF r.error = "Texts must be a list" THEN "NotASequence"
    ELSE IF r.error = "No valid texts provided" THEN "NoValidTexts"
    ELSE "InferenceError"

\* C1: while ModelState is not Ready no encode call has been made, and a POST
\* /embed or /embed/batch, whatever its body, is answered 500 "Model not
\* loaded" without calling encode.
C1_ReadinessGate ==
    /\ ModelState # "Ready" => encodeCalls = 0
    /\ (Replying /\ IsPost /\ ModelState # "Ready") =>
           (encodeArg = NoCall /\ resp = NotLoaded)

C1_Witness ==
    /\ Replying /\ ModelState = "Failed" /\ served >= 1
    /\ req.ep = "/embed/batch" /\ GoodTexts(req.body) /\ resp = NotLoaded

\* C2: ModelState starts as Loading, leaves Loading only by the startup load
\* (to Ready or Failed), and once Ready or Failed never changes again.
C2_WriteOnce ==
    /\ ModelState = "Loading"
    /\ [][ /\ ModelState # "Loading" => ModelState' = ModelState
           /\ ModelState = "Loading" /\ ModelState' # "Loading" =>
                  /\ LoadModel
                  /\ ModelState' = IF model' = Handle THEN "Ready" ELSE "Failed" ]_vars

C2_Witness ==
    /\ Replying /\ ModelState = "Failed" /\ served >= 1
    /\ req.ep = "/embed" /\ GoodText(req.body) /\ resp.status = 500

\* C3: whatever is handed to encode is a non-empty collection of strings,
\* each with at least one non-whitespace character.
C3_EncodeArgNonBlank ==
    encodeArg # NoCall =>
        /\ encodeArg.texts # <<>>
        /\ \A i \in 1..Len(encodeArg.texts) :
               encodeArg.texts[i].t = "str" /\ NonBlank(encodeArg.texts[i].s)

C3_Witness ==
    /\ Replying /\ req.ep = "/embed/batch" /\ encodeArg # NoCall
    /\ req.body.texts.t = "list"
    /\ \E i \in 1..Len(req.body.texts.l) : ~NonBlank(req.body.texts.l[i].s)

\* C4 (as claimed): with the model Ready, every body that parses as JSON but
\* is not a well-formed request is answered with a 400 error body and encode
\* is not called; no malformed input gets a 500.
C4_Claim ==
    (Replying /\ IsPost /\ model # None /\ req.body.kind # "invalid" /\ ~WellFormed(req)) =>
        (resp.status = 400 /\ resp.shape = "error" /\ encodeArg = NoCall)

\* C5 (as claimed): a Ready /embed/batch whose texts is a list of strings with
\* a non-blank element passes exactly the non-blank subsequence to encode and
\* is answered 200 with count and embeddings matching that subsequence.
C5_Claim ==
    (Replying /\ req.ep = "/embed/batch" /\ model # None /\ GoodTexts(req.body)) =>
        /\ encodeArg = [shape |-> "list", texts |-> Keep(req.body.texts.l)]
        /\ resp.status = 200
        /\ resp.count = Len(Keep(req.body.texts.l))

\* C5 (amended): the list passed to encode is exactly the subsequence of the
\* non-blank input elements, in order and unchanged; when encode returns, the
\* response is 200, count is the length of that subsequence and embeddings[i]
\* is the vector of the i-th surviving text.
C5_FilterPreservesTexts ==
    (Replying /\ req.ep = "/embed/batch" /\ model # None /\ GoodTexts(req.body)) =>
        LET sub == Keep(req.body.texts.l) IN
        /\ encodeArg = [shape |-> "list", texts |-> sub]
        /\ IF encodeRet.raised THEN resp.status = 500
           ELSE /\ resp.status = 200
                /\ resp.shape = "batch"
                /\ resp.count = Len(sub)
                /\ Len(resp.embeddings) = Len(sub)
                /\ \A i \in 1..Len(sub) :
                       /\ Len(resp.embeddings[i]) >= 1
                       /\ \A j \in 1..Len(resp.embeddings[i]) :
                              resp.embeddings[i][j] = Code(sub[i].s)
                       /\ req.mode = "ok" => Len(resp.embeddings[i]) = Dim

C5_Witness ==
    /\ Replying /\ req.ep = "/embed/batch" /\ resp.status = 200
    /\ Len(req.body.texts.l) = 2 /\ resp.count = 1
    /\ encodeArg.texts = <<JStr(<<" ", "a">>)>>

\* C6: when encode raises, the handler answers 500 with the raised message
\* and no embedding, the handle is untouched, and after the reply the service
\* is back in the idle state with the same handle.
C6_InferenceErrorContained ==
    [][ /\ (pc' = "replying" /\ encodeRet'.raised) =>
               /\ resp' = ErrorResponse(EncodeMessage, 500)
               /\ resp'.embedding = NoVec /\ resp'.embeddings = <<>>
               /\ model' = model /\ model = Handle
        /\ (pc = "replying" /\ encodeRet.raised) =>
               /\ pc' = "idle" /\ model' = Handle
               /\ <<req', resp', encodeArg', encodeRet'>>
                      = <<NoRequest, NoResponse, NoCall, NoReturn>> ]_vars

C6_Witness ==
    /\ Replying /\ encodeRet.raised /\ served >= 1
    /\ req.ep = "/embed/batch" /\ Len(encodeArg.texts) = 2

\* C7: /health answers 200 "healthy" exactly when ModelState is Ready and 500
\* "error" otherwise; / answers 200 with status "ready" exactly when Ready,
\* else "loading"; neither calls encode nor changes the handle.
C7_ReadinessSurface ==
    [][ (pc = "idle" /\ pc' = "replying" /\ req'.ep \in {"/health", "/"}) =>
            /\ req'.ep = "/health" =>
                   IF ModelState = "Ready"
                   THEN resp'.status = 200 /\ resp'.status_text = "healthy"
                   ELSE resp'.status = 500 /\ resp'.status_text = "error"
            /\ req'.ep = "/" =>
                   /\ resp'.status = 200
                   /\ resp'.status_text = IF ModelState = "Ready" THEN "ready" ELSE "loading"
            /\ model' = model /\ encodeCalls' = encodeCalls /\ encodeArg' = NoCall ]_vars

C7_Witness ==
    /\ Replying /\ req.ep = "/health" /\ ModelState = "Failed"
    /\ resp.status = 500 /\ served >= 1

\* the other endpoint's answer to the same text under the same encode behaviour
BatchOfOne(r) ==
    embed_batch(model,
                [r.body EXCEPT !.keys = @ \cup {"texts"}, !.texts = JList(<<r.body.text>>)],
                r.mode).resp
SingleOf(r) ==
    embed_text(model,
               [r.body EXCEPT !.keys = @ \cup {"text"}, !.text = r.body.texts.l[1]],
               r.mode).resp

IsSingle(r) == r.ep = "/embed" /\ HasField(r.body, "text") /\ r.body.text.t = "str"
IsBatchOfOne(r) ==
    /\ r.ep = "/embed/batch" /\ HasField(r.body, "texts") /\ r.body.texts.t = "list"
    /\ Len(r.body.texts.l) = 1 /\ r.body.texts.l[1].t = "str"

SameSuccess(single, batch) ==
    single.status = 200 =>
        /\ batch.status = 200
        /\ single.embedding = batch.embeddings[1]
        /\ single.dimensions = batch.dimensions

\* C8 (as claimed): /embed with {text: t} and /embed/batch with {texts: [t]}
\* give the same status and the same kind of error, and equal vectors and
\* dimensions when they succeed.
C8_Claim ==
    /\ (Replying /\ IsSingle(req)) =>
           /\ resp.status = BatchOfOne(req).status
           /\ ErrorKind(resp) = ErrorKind(BatchOfOne(req))
           /\ SameSuccess(resp, BatchOfOne(req))
    /\ (Replying /\ IsBatchOfOne(req)) =>
           /\ resp.status = SingleOf(req).status
           /\ ErrorKind(resp) = ErrorKind(SingleOf(req))
           /\ SameSuccess(SingleOf(req), resp)

\* C8 (amended): the two endpoints give the same status for the same text in
\* every ModelState, and the same kind of error except for a blank text with
\* the model Ready, which /embed reports as EmptyText and /embed/batch as
\* NoValidTexts; when they succeed the vectors and dimensions are equal.
SameOutcome(t, single, batch) ==
    /\ single.status = batch.status
    /\ IF model # None /\ ~NonBlank(t)
       THEN ErrorKind(single) = "EmptyText" /\ ErrorKind(batch) = "NoValidTexts"
       ELSE ErrorKind(single) = ErrorKind(batch)
    /\ SameSuccess(single, batch)

C8_SingleBatchAgree ==
    /\ (Replying /\ IsSingle(req)) =>
           SameOutcome(req.body.text.s, resp, BatchOfOne(req))
    /\ (Replying /\ IsBatchOfOne(req)) =>
           SameOutcome(req.body.texts.l[1].s, SingleOf(req), resp)

C8_Witness ==
    /\ Replying /\ IsBatchOfOne(req) /\ resp.status = 200
    /\ resp.embeddings[1] = SingleOf(req).embedding /\ resp.dimensions = Dim

\* C9 (as claimed): in a 200 of /embed/batch, dimensions is the length of
\* every vector and count the number of vectors; in a 200 of /embed,
\* dimensions is the length of embedding.
C9_Claim ==
    /\ (Replying /\ req.ep = "/embed/batch" /\ resp.status = 200) =>
           /\ resp.count = Len(resp.embeddings)
           /\ \A i \in 1..Len(resp.embeddings) : Len(resp.embeddings[i]) = resp.dimensions
    /\ (Replying /\ req.ep = "/embed" /\ resp.status = 200) =>
           resp.dimensions = Len(resp.embedding)

\* C10 (as claimed): a POST whose body fails validation is answered with the
\* 400 validation error in every ModelState.
C10_Claim ==
    (Replying /\ IsPost /\ FailsValidation(req)) => resp.status = 400

\* C10 (amended): the readiness check comes first: a POST whose body fails
\* validation is answered 400 only when ModelState is Ready and 500 "Model
\* not loaded" otherwise, and no 400 is produced unless the model is Ready.
C10_ReadinessFirst ==
    /\ (Replying /\ IsPost /\ FailsValidation(req)) =>
           IF ModelState = "Ready"
           THEN resp.status = 400 /\ resp.shape = "error"
           ELSE resp = NotLoaded
    /\ (Replying /\ resp.status = 400) => ModelState = "Ready"

C10_Witness ==
    /\ Replying /\ ModelState = "Failed" /\ req.ep = "/embed"
    /\ EmptyText(req) /\ resp = NotLoaded
====
